---- MODULE Spec2Model ----
(***************************************************************************)
(* envcheck.py: a single-shot environment check.  One textual argument is  *)
(* classified as a command or a path, resolved to a Target, its runtime is *)
(* looked up, facts are collected in a capped log, one run is attempted    *)
(* and one verdict (SUCCESS / FAIL) is printed.                            *)
(*                                                                         *)
(* Text is modelled as a sequence of characters, a character being a       *)
(* one-character string; the three control characters used are the named   *)
(* tokens LF, CR and TAB.  A Path is the sequence of its parts plus an     *)
(* absolute flag, as pathlib keeps it.  An Optional value is the empty     *)
(* sequence (None) or a one-element sequence.                              *)
(***************************************************************************)
EXTENDS Integers, Sequences, FiniteSets, TLC

VARIABLES
    argv,         \* sys.argv[1:], a sequence of raw arguments
    installed,    \* names of the executables shutil.which can find
    req,          \* state of every requirements.txt: absent, unreadable, or its lines
    behaviour,    \* what the target program does when it really runs: [code, secs]
    pc,           \* position of main
    log,          \* Log.lines
    t,            \* the Target parse_target returned
    runtime_exe,  \* Optional executable name found by which_runtime
    cmd,          \* Optional command line build_run_command returned
    run,          \* what run_attempt saw: spawn result, the process, wait result
    ok,           \* the boolean run_attempt returned
    subprocs,     \* every subprocess created so far: [kind, cmd, cwd]
    stdout,       \* lines printed to standard output
    exitCode,     \* process exit status, NoExit while running
    logFile       \* content of ./envcheck.log

vars == <<argv, installed, req, behaviour, pc, log, t, runtime_exe, cmd, run, ok,
          subprocs, stdout, exitCode, logFile>>

\* ---------------------------------------------------------------- characters
LF  == "<LF>"
CR  == "<CR>"
TAB == "<TAB>"
DQ  == "\""
SQ  == "'"
BS  == "\\"

None == <<>>
Some(x) == <<x>>

\* str.isspace / the characters str.strip() removes (of the model's alphabet)
IsSpace(c) == c \in {" ", TAB, LF, CR}


SetMin(S) == CHOOSE x \in S : \A y \in S : x <= y
SetMax(S) == CHOOSE x \in S : \A y \in S : x >= y

\* s[:n]
Take(s, n) == SubSeq(s, 1, IF n < Len(s) THEN n ELSE Len(s))

\* s[n:] (0-based n)
Drop(s, n) == SubSeq(s, n + 1, Len(s))

\* s[lo..hi] for the positions kept, the empty text when none is
Between(s, keep) == IF keep = {} THEN <<>> ELSE SubSeq(s, SetMin(keep), SetMax(keep))

\* str.strip()
Strip(s) == Between(s, {i \in 1..Len(s) : ~IsSpace(s[i])})

\* str.replace("\n", " ")
ReplaceNewline(s) == [i \in 1..Len(s) |-> IF s[i] = LF THEN " " ELSE s[i]]

\* str.startswith(p)
StartsWith(s, p) == Len(s) >= Len(p) /\ SubSeq(s, 1, Len(p)) = p

\* positions where sub occurs in s
Occurrences(s, sub) ==
    {i \in 1..(Len(s) - Len(sub) + 1) : SubSeq(s, i, i + Len(sub) - 1) = sub}

\* sub in s
Contains(s, sub) == Occurrences(s, sub) # {}

\* position of the first occurrence of sub in s, 0 when there is none
Find(s, sub) == IF Occurrences(s, sub) = {} THEN 0 ELSE SetMin(Occurrences(s, sub))

\* the text before position i, all of it when i is 0
Before(s, i) == IF i = 0 THEN s ELSE SubSeq(s, 1, i - 1)

\* s.split(sep, 1)[0] : the text before the first occurrence of sep
BeforeFirst(s, sep) == Before(s, Find(s, sep))

\* sep.join(xs)
RECURSIVE Join(_, _)
Join(xs, sep) ==
    IF xs = <<>> THEN <<>>
    ELSE IF Len(xs) = 1 THEN xs[1]
    ELSE xs[1] \o sep \o Join(Tail(xs), sep)

\* code-point order of the characters that occur in file names of the model
Ord(c) ==
    CASE c = TAB -> 9  [] c = LF -> 10 [] c = CR -> 13
      [] c = " " -> 32 [] c = "#" -> 35 [] c = SQ -> 39 [] c = "-" -> 45
      [] c = "." -> 46 [] c = "/" -> 47 [] c = "_" -> 95
      [] c = "a" -> 97 [] c = "b" -> 98 [] c = "c" -> 99 [] c = "d" -> 100
      [] c = "e" -> 101 [] c = "g" -> 103 [] c = "h" -> 104 [] c = "i" -> 105
      [] c = "j" -> 106 [] c = "k" -> 107 [] c = "l" -> 108 [] c = "m" -> 109
      [] c = "n" -> 110 [] c = "o" -> 111 [] c = "p" -> 112 [] c = "q" -> 113
      [] c = "r" -> 114 [] c = "s" -> 115 [] c = "t" -> 116 [] c = "u" -> 117
      [] c = "v" -> 118 [] c = "x" -> 120 [] c = "y" -> 121
      [] OTHER -> 63

\* a < b for strings, as sorted() orders the names of one directory
RECURSIVE StrLess(_, _)
StrLess(a, b) ==
    IF b = <<>> THEN FALSE
    ELSE IF a = <<>> THEN TRUE
    ELSE IF a[1] = b[1] THEN StrLess(Tail(a), Tail(b))
    ELSE Ord(a[1]) < Ord(b[1])

\* decimal text of a natural number, as an f-string formats it
RECURSIVE Dec(_)
Dec(n) ==
    LET digit(d) == <<"0","1","2","3","4","5","6","7","8","9">>[d + 1]
    IN  IF n < 10 THEN <<digit(n)>> ELSE Dec(n \div 10) \o <<digit(n % 10)>>


\* the texts of the facts, each with the line of envcheck.py whose log.add call writes it
F ==
    [ arg_missing_or_extra |->   \* line 472
          <<"a","r","g",":"," ","m","i","s","s","i","n","g","_","o","r","_",
            "e","x","t","r","a">>,
      platform |->   \* line 476
          <<"p","l","a","t","f","o","r","m",":"," ">>,
      command_parse_error |->   \* line 215
          <<"c","o","m","m","a","n","d",":"," ","p","a","r","s","e","_","e",
            "r","r","o","r">>,
      command_empty |->   \* line 218
          <<"c","o","m","m","a","n","d",":"," ","e","m","p","t","y">>,
      input_command |->   \* line 220
          <<"i","n","p","u","t",":"," ","c","o","m","m","a","n","d","=">>,
      ellipsis |->   \* line 220
          <<" ",".",".",".">>,
      input_file |->   \* line 230
          <<"i","n","p","u","t",":"," ","f","i","l","e","=">>,
      input_dir |->   \* line 235
          <<"i","n","p","u","t",":"," ","d","i","r","=">>,
      input_not_found |->   \* line 240
          <<"i","n","p","u","t",":"," ","n","o","t","_","f","o","u","n","d">>,
      entrypoint |->   \* line 122
          <<"e","n","t","r","y","p","o","i","n","t",":"," ">>,
      entrypoint_none |->   \* line 131
          <<"e","n","t","r","y","p","o","i","n","t",":"," ","n","o","n","e">>,
      executable |->   \* line 143
          <<"e","x","e","c","u","t","a","b","l","e",":"," ">>,
      yes |->   \* line 143
          <<"y","e","s">>,
      no |->   \* line 143
          <<"n","o">>,
      runtime_unknown |->   \* line 484
          <<"r","u","n","t","i","m","e",":"," ","u","n","k","n","o","w","n">>,
      python_dir |->   \* line 191
          <<"p","y","t","h","o","n","_","d","i","r",":"," ","p","y","_","f",
            "i","l","e","s","_","p","r","e","s","e","n","t">>,
      runtime_version |->   \* line 266
          <<"r","u","n","t","i","m","e","_","v","e","r","s","i","o","n",":",
            " ">>,
      runtime_version_unknown |->   \* line 268
          <<"r","u","n","t","i","m","e","_","v","e","r","s","i","o","n",":",
            " ","u","n","k","n","o","w","n">>,
      runtime_version_error |->   \* line 270
          <<"r","u","n","t","i","m","e","_","v","e","r","s","i","o","n",":",
            " ","e","r","r","o","r">>,
      project_type |->   \* line 286
          <<"p","r","o","j","e","c","t","_","t","y","p","e",":"," ">>,
      app |->   \* line 184
          <<"a","p","p">>,
      library |->   \* line 187
          <<"l","i","b","r","a","r","y">>,
      pyproject |->   \* line 306
          <<"p","y","p","r","o","j","e","c","t",":"," ">>,
      requirements_txt |->   \* line 307
          <<"r","e","q","u","i","r","e","m","e","n","t","s","_","t","x","t",
            ":"," ">>,
      venv |->   \* line 308
          <<"v","e","n","v",":"," ">>,
      package_json |->   \* line 310
          <<"p","a","c","k","a","g","e","_","j","s","o","n",":"," ">>,
      lockfile |->   \* line 312
          <<"l","o","c","k","f","i","l","e",":"," ">>,
      node_modules |->   \* line 313
          <<"n","o","d","e","_","m","o","d","u","l","e","s",":"," ">>,
      go_mod |->   \* line 315
          <<"g","o","_","m","o","d",":"," ">>,
      present |->   \* line 283
          <<"p","r","e","s","e","n","t">>,
      absent |->   \* line 283
          <<"a","b","s","e","n","t">>,
      deps_read_error |->   \* line 337
          <<"d","e","p","s","_","p","r","o","b","e",":"," ","r","e","q","u",
            "i","r","e","m","e","n","t","s","_","r","e","a","d","_","e","r",
            "r","o","r">>,
      deps_no_packages |->   \* line 360
          <<"d","e","p","s","_","p","r","o","b","e",":"," ","n","o","_","p",
            "a","c","k","a","g","e","s","_","p","a","r","s","e","d">>,
      deps_error |->   \* line 374
          <<"d","e","p","s","_","p","r","o","b","e",":"," ","e","r","r","o",
            "r">>,
      deps_checked |->   \* line 377
          <<"d","e","p","s","_","p","r","o","b","e",":"," ","c","h","e","c",
            "k","e","d","=">>,
      missing_eq |->   \* line 377
          <<" ","m","i","s","s","i","n","g","=">>,
      deps_missing |->   \* line 381
          <<"d","e","p","s","_","m","i","s","s","i","n","g",":"," ">>,
      entrypoint_missing |->   \* line 387
          <<"e","n","t","r","y","p","o","i","n","t",":"," ","m","i","s","s",
            "i","n","g">>,
      entrypoint_not_found |->   \* line 390
          <<"e","n","t","r","y","p","o","i","n","t",":"," ","n","o","t","_",
            "f","o","u","n","d">>,
      entrypoint_not_file |->   \* line 393
          <<"e","n","t","r","y","p","o","i","n","t",":"," ","n","o","t","_",
            "f","i","l","e">>,
      run_command_missing |->   \* line 401
          <<"r","u","n",":"," ","c","o","m","m","a","n","d","_","m","i","s",
            "s","i","n","g">>,
      run_not_applicable |->   \* line 406
          <<"r","u","n",":"," ","n","o","t","_","a","p","p","l","i","c","a",
            "b","l","e">>,
      runtime_missing |->   \* line 489
          <<"r","u","n","t","i","m","e",":"," ","m","i","s","s","i","n","g">>,
      run_not_found |->   \* line 441
          <<"r","u","n",":"," ","n","o","t","_","f","o","u","n","d">>,
      run_spawn_error |->   \* line 444
          <<"r","u","n",":"," ","s","p","a","w","n","_","e","r","r","o","r">>,
      run_exit_code |->   \* line 450
          <<"r","u","n",":"," ","e","x","i","t","_","c","o","d","e","=">>,
      run_timeout_running |->   \* line 453
          <<"r","u","n",":"," ","t","i","m","e","o","u","t","_","r","u","n",
            "n","i","n","g">>,
      run_wait_error |->   \* line 460
          <<"r","u","n",":"," ","w","a","i","t","_","e","r","r","o","r">> ]

\* the file names and extensions the code looks for, each with its line of envcheck.py
N ==
    [ main_py |->   \* line 26
          <<"m","a","i","n",".","p","y">>,
      run_py |->   \* line 26
          <<"r","u","n",".","p","y">>,
      app_py |->   \* line 26
          <<"a","p","p",".","p","y">>,
      index_js |->   \* line 27
          <<"i","n","d","e","x",".","j","s">>,
      main_js |->   \* line 27
          <<"m","a","i","n",".","j","s">>,
      run_sh |->   \* line 28
          <<"r","u","n",".","s","h">>,
      main_sh |->   \* line 28
          <<"m","a","i","n",".","s","h">>,
      main_go |->   \* line 29
          <<"m","a","i","n",".","g","o">>,
      package_json |->   \* line 186
          <<"p","a","c","k","a","g","e",".","j","s","o","n">>,
      pyproject_toml |->   \* line 189
          <<"p","y","p","r","o","j","e","c","t",".","t","o","m","l">>,
      go_mod |->   \* line 194
          <<"g","o",".","m","o","d">>,
      requirements_txt |->   \* line 289
          <<"r","e","q","u","i","r","e","m","e","n","t","s",".","t","x","t">>,
      dot_venv |->   \* line 293
          <<".","v","e","n","v">>,
      venv |->   \* line 293
          <<"v","e","n","v">>,
      env |->   \* line 293
          <<"e","n","v">>,
      node_modules |->   \* line 297
          <<"n","o","d","e","_","m","o","d","u","l","e","s">>,
      package_lock |->   \* line 298
          <<"p","a","c","k","a","g","e","-","l","o","c","k",".","j","s","o",
            "n">>,
      yarn_lock |->   \* line 299
          <<"y","a","r","n",".","l","o","c","k">>,
      pnpm_lock |->   \* line 300
          <<"p","n","p","m","-","l","o","c","k",".","y","a","m","l">>,
      ext_py |->   \* line 137
          <<".","p","y">>,
      ext_js |->   \* line 139
          <<".","j","s">>,
      ext_sh |->   \* line 141
          <<".","s","h">>,
      ext_go |->   \* line 147
          <<".","g","o">> ]

\* executable names, command words and the substrings searched in a first line or a
\* requirement line, each with its line of envcheck.py
X ==
    [ python3 |->   \* line 246
          <<"p","y","t","h","o","n","3">>,
      python |->   \* line 246
          <<"p","y","t","h","o","n">>,
      py |->   \* line 107
          <<"p","y">>,
      node |->   \* line 248
          <<"n","o","d","e">>,
      bash |->   \* line 250
          <<"b","a","s","h">>,
      sh |->   \* line 250
          <<"s","h">>,
      go |->   \* line 252
          <<"g","o">>,
      version |->   \* line 259
          <<"-","-","v","e","r","s","i","o","n">>,
      run |->   \* line 425
          <<"r","u","n">>,
      shebang |->   \* line 154
          <<"#","!">>,
      slash_sh |->   \* line 159
          <<"/","s","h">>,
      url |->   \* line 345
          <<":","/","/">>,
      git |->   \* line 345
          <<"g","i","t","+">> ]


\* ---------------------------------------------------------------- Fact Log
LOG_MAX_LINES == 10
LOG_LINE_MAX == 240

\* Log.add with the capacity test left out
LogAddUncapped(lines, line) == Append(lines, Take(ReplaceNewline(Strip(line)), LOG_LINE_MAX))

\* Log.add(line): the new value of Log.lines
LogAdd(lines, line) ==
    IF Len(lines) < LOG_MAX_LINES
    THEN Append(lines, Take(ReplaceNewline(Strip(line)), LOG_LINE_MAX))
    ELSE lines

\* Log.write(): the text handed to write_text, "\n".join(lines) + ("\n" if lines else "")
LogText(lines) == IF lines = <<>> THEN <<>> ELSE Join(lines, <<LF>>) \o <<LF>>

\* the lines of a text file: the text before each of its "\n" terminators
RECURSIVE FileLines(_)
LinesFrom(text, i) ==
    IF i = 0 THEN <<text>> ELSE <<SubSeq(text, 1, i - 1)>> \o FileLines(Drop(text, i))

FileLines(text) == IF text = <<>> THEN <<>> ELSE LinesFrom(text, Find(text, <<LF>>))


\* ---------------------------------------------------------------- paths
\* str.split(sep) for a one-character separator
RECURSIVE SplitChar(_, _)
SplitAt(s, c, i) ==
    IF i = 0 THEN <<s>> ELSE <<SubSeq(s, 1, i - 1)>> \o SplitChar(Drop(s, i), c)

SplitChar(s, c) == SplitAt(s, c, Find(s, <<c>>))

\* the path components pathlib keeps: not the empty ones, not "."
RECURSIVE FilterParts(_)
FilterParts(ps) ==
    IF ps = <<>> THEN <<>>
    ELSE IF Head(ps) = <<>> \/ Head(ps) = <<".">> THEN FilterParts(Tail(ps))
    ELSE <<Head(ps)>> \o FilterParts(Tail(ps))

\* pathlib.Path(s): empty and "." components are dropped, ".." is kept
PathOf(s) ==
    [abs |-> s # <<>> /\ s[1] = "/", parts |-> FilterParts(SplitChar(s, "/"))]

\* str(p)
PathStr(p) ==
    IF p.abs THEN <<"/">> \o Join(p.parts, <<"/">>)
    ELSE IF p.parts = <<>> THEN <<".">>
    ELSE Join(p.parts, <<"/">>)

\* d / name
PathJoin(d, name) == [abs |-> d.abs, parts |-> d.parts \o PathOf(name).parts]

\* p.name
PathName(p) == IF p.parts = <<>> THEN <<>> ELSE p.parts[Len(p.parts)]

\* p.parent
PathParent(p) ==
    [abs |-> p.abs,
     parts |-> IF p.parts = <<>> THEN <<>> ELSE SubSeq(p.parts, 1, Len(p.parts) - 1)]

\* str.lower() on the model's alphabet (P and Y are its upper-case letters)
Lower(s) ==
    [i \in 1..Len(s) |-> CASE s[i] = "P" -> "p" [] s[i] = "Y" -> "y" [] OTHER -> s[i]]

\* the text of name from its last dot, unless that dot is first or last
SuffixAt(name, dots) ==
    IF dots # {} /\ SetMax(dots) > 1 /\ SetMax(dots) < Len(name)
    THEN SubSeq(name, SetMax(dots), Len(name))
    ELSE <<>>

\* the positions of the dots of a name
Dots(name) == {i \in 1..Len(name) : name[i] = "."}

\* p.suffix
Suffix(p) == SuffixAt(PathName(p), Dots(PathName(p)))

\* str.endswith(e)
EndsWith(s, e) == Len(s) >= Len(e) /\ SubSeq(s, Len(s) - Len(e) + 1, Len(s)) = e


\* names of the modelled file tree, first lines of its files, and the platform text
W ==
    [ w |->
          <<"w">>,
      proj |->
          <<"p","r","o","j">>,
      lib |->
          <<"l","i","b">>,
      pylib |->
          <<"p","y","l","i","b">>,
      golib |->
          <<"g","o","l","i","b">>,
      gd |->
          <<"g","d">>,
      fb |->
          <<"f","b">>,
      empty |->
          <<"e","m","p","t","y">>,
      my_dir |->
          <<"m","y"," ","d","i","r">>,
      sp_a_b |->
          <<" ","a"," ","b">>,
      s_py |->
          <<"s",".","p","y">>,
      u_PY |->
          <<"u",".","P","Y">>,
      h_go |->
          <<"h",".","g","o">>,
      tool |->
          <<"t","o","o","l">>,
      a_sh |->
          <<"a",".","s","h">>,
      b_sh |->
          <<"b",".","s","h">>,
      x_js |->
          <<"x",".","j","s">>,
      a_go |->
          <<"a",".","g","o">>,
      nope |->
          <<"n","o","p","e">>,
      env_python |->
          <<"#","!","/","u","s","r","/","b","i","n","/","e","n","v"," ","p",
            "y","t","h","o","n">>,
      bin_sh |->
          <<"#","!","/","b","i","n","/","s","h">>,
      platform |->
          <<"l","i","n","u","x","_","x","8","6","_","6","4">> ]


\* ---------------------------------------------------------------- file system
\* length of the long file name (without its extension)
LongLen == 240

W_long_py == [i \in 1..LongLen |-> "x"] \o N.ext_py
W_cr_py == <<"a", CR, "b", ".", "p", "y">>

\* the caller's working directory, /w
CWD == <<W.w>>

\* the directories, by absolute parts
Dirs ==
    { <<>>, CWD,
      CWD \o <<W.proj>>, CWD \o <<W.lib>>, CWD \o <<W.pylib>>, CWD \o <<W.golib>>,
      CWD \o <<W.gd>>, CWD \o <<W.gd, W.a_sh>>, CWD \o <<W.fb>>, CWD \o <<W.empty>>,
      CWD \o <<W.my_dir>> }

\* the regular files that are there whatever requirements.txt is
StaticFiles ==
    { CWD \o <<W.proj, N.main_py>>, CWD \o <<W.proj, N.run_sh>>,
      CWD \o <<W.lib, N.package_json>>,
      CWD \o <<W.pylib, N.pyproject_toml>>,
      CWD \o <<W.golib, N.go_mod>>,
      CWD \o <<W.gd, W.b_sh>>,
      CWD \o <<W.fb, W.x_js>>, CWD \o <<W.fb, W.a_go>>,
      CWD \o <<W.my_dir, N.index_js>>,
      CWD \o <<W.sp_a_b>>, CWD \o <<W.s_py>>, CWD \o <<W.u_PY>>, CWD \o <<W.h_go>>,
      CWD \o <<W.tool>>, CWD \o <<W_cr_py>>, CWD \o <<W_long_py>> }

\* the requirements.txt files, present or absent together
ReqFiles ==
    { CWD \o <<N.requirements_txt>>, CWD \o <<W.proj, N.requirements_txt>>,
      CWD \o <<W.pylib, N.requirements_txt>> }

Files == StaticFiles \cup (IF req.present THEN ReqFiles ELSE {})

\* files with the execute permission bit
ExecFiles == { CWD \o <<W.proj, N.run_sh>>, CWD \o <<W.tool>> }

\* first line of a file
FirstLine(f) ==
    IF f = CWD \o <<W.tool>> THEN W.env_python
    ELSE IF f = CWD \o <<W.sp_a_b>> THEN W.bin_sh
    ELSE <<>>

\* modules importlib.util.find_spec finds
Importable == { <<"o", "s">> }

\* follow parts from the directory cur: the place reached, None when a
\* component is looked up in something that is not a directory
RECURSIVE Walk(_, _)
Walk(cur, parts) ==
    IF parts = <<>> THEN Some(cur)
    ELSE IF cur \notin Dirs THEN None
    ELSE IF Head(parts) = <<".", ".">>
         THEN Walk(IF cur = <<>> THEN cur ELSE SubSeq(cur, 1, Len(cur) - 1), Tail(parts))
         ELSE Walk(Append(cur, Head(parts)), Tail(parts))

\* the place reached when it is a file or a directory, None otherwise
Found(r) == IF r # None /\ r[1] \in Dirs \cup Files THEN r ELSE None

\* the file system entry path p denotes for a process whose working
\* directory is base: Some(absolute parts), or None when there is none
Resolve(base, p) == Found(Walk(IF p.abs THEN <<>> ELSE base, p.parts))

IsFileAt(r) == r # None /\ r[1] \in Files
IsDirAt(r) == r # None /\ r[1] \in Dirs

\* Path.exists(), Path.is_file(), Path.is_dir() in the caller's directory
Exists(p) == Resolve(CWD, p) # None
IsFile(p) == IsFileAt(Resolve(CWD, p))
IsDir(p) == IsDirAt(Resolve(CWD, p))

\* names of the entries of the directory at r (files and directories alike)
Entries(r) ==
    IF ~IsDirAt(r) THEN {}
    ELSE {x[Len(x)] : x \in {y \in Dirs \cup Files :
                               Len(y) = Len(r[1]) + 1 /\ SubSeq(y, 1, Len(r[1])) = r[1]}}

Listing(d) == Entries(Resolve(CWD, d))

\* d.glob("*" + ext): the names of d's entries that end with ext
Glob(d, ext) == {n \in Listing(d) : EndsWith(n, ext)}

\* sorted(names)[0]
FirstSorted(names) == CHOOSE n \in names : \A m \in names : m = n \/ StrLess(n, m)


\* ---------------------------------------------------------------- input classifier
ENTRYPOINT_PATTERNS ==
    <<N.main_py, N.run_py, N.app_py, N.index_js, N.main_js, N.run_sh, N.main_sh, N.main_go>>

\* unquote_if_wrapped(raw), s being raw.strip(): [text, wrapped]
Unquote(raw, s) ==
    IF Len(s) >= 2 /\ s[1] \in {SQ, DQ} /\ s[Len(s)] = s[1]
    THEN [text |-> SubSeq(s, 2, Len(s) - 1), wrapped |-> TRUE]
    ELSE [text |-> raw, wrapped |-> FALSE]

unquote_if_wrapped(raw) == Unquote(raw, Strip(raw))

\* is_command_input once raw is stripped and u = unquote_if_wrapped(raw)
IsCommand(raw, u) ==
    IF u.wrapped THEN ~Exists(PathOf(u.text))
    ELSE IF \E i \in 1..Len(raw) : IsSpace(raw[i]) THEN ~Exists(PathOf(raw))
    ELSE FALSE

StrippedIsCommand(raw) == IsCommand(raw, unquote_if_wrapped(raw))

\* is_command_input(raw)
is_command_input(raw) == StrippedIsCommand(Strip(raw))

\* shlex.split(s), POSIX mode, no comments: [err, toks].  state is where the
\* tokenizer is (ws: between tokens, word, sq / dq: inside quotes, esc: after a
\* backslash), back the state an escape returns to, tok the token being read
RECURSIVE ShlexRun(_, _, _, _, _, _)
ShlexRun(s, state, back, tok, quoted, out) ==
    IF s = <<>>
    THEN CASE state \in {"sq", "dq", "esc"} -> [err |-> TRUE, toks |-> <<>>]
           [] state = "word" -> [err |-> FALSE, toks |-> Append(out, tok)]
           [] OTHER -> [err |-> FALSE, toks |-> out]
    ELSE LET c == Head(s)
             r == Tail(s)
         IN  CASE state = "ws" ->
                    IF c \in {" ", TAB, CR, LF} THEN ShlexRun(r, "ws", back, <<>>, FALSE, out)
                    ELSE IF c = BS THEN ShlexRun(r, "esc", "word", <<>>, FALSE, out)
                    ELSE IF c = SQ THEN ShlexRun(r, "sq", back, <<>>, TRUE, out)
                    ELSE IF c = DQ THEN ShlexRun(r, "dq", back, <<>>, TRUE, out)
                    ELSE ShlexRun(r, "word", back, <<c>>, FALSE, out)
               [] state = "sq" ->
                    IF c = SQ THEN ShlexRun(r, "word", back, tok, TRUE, out)
                    ELSE ShlexRun(r, "sq", back, Append(tok, c), TRUE, out)
               [] state = "dq" ->
                    IF c = DQ THEN ShlexRun(r, "word", back, tok, TRUE, out)
                    ELSE IF c = BS THEN ShlexRun(r, "esc", "dq", tok, TRUE, out)
                    ELSE ShlexRun(r, "dq", back, Append(tok, c), TRUE, out)
               [] state = "esc" ->
                    IF back = "dq" /\ c # BS /\ c # DQ
                    THEN ShlexRun(r, back, back, tok \o <<BS, c>>, quoted, out)
                    ELSE ShlexRun(r, back, back, Append(tok, c), quoted, out)
               [] OTHER ->
                    IF c \in {" ", TAB, CR, LF}
                    THEN IF tok # <<>> \/ quoted
                         THEN ShlexRun(r, "ws", back, <<>>, FALSE, Append(out, tok))
                         ELSE ShlexRun(r, "ws", back, <<>>, FALSE, out)
                    ELSE IF c = SQ THEN ShlexRun(r, "sq", back, tok, quoted, out)
                    ELSE IF c = DQ THEN ShlexRun(r, "dq", back, tok, quoted, out)
                    ELSE IF c = BS THEN ShlexRun(r, "esc", "word", tok, quoted, out)
                    ELSE ShlexRun(r, "word", back, Append(tok, c), quoted, out)

ShlexSplit(s) == ShlexRun(s, "ws", "word", <<>>, FALSE, <<>>)

\* ---------------------------------------------------------------- target resolver
\* Target(...)
Target(kind, path, command, entrypoint, runtime, project_type) ==
    [kind |-> kind, path |-> path, command |-> command, entrypoint |-> entrypoint,
     runtime |-> runtime, project_type |-> project_type]

\* the runtime of an executable name
RuntimeOfHead(head) ==
    IF head \in {X.python, X.python3, X.py} THEN "python"
    ELSE IF head = X.node THEN "node"
    ELSE IF head \in {X.bash, X.sh} THEN "bash"
    ELSE IF head = X.go THEN "go"
    ELSE "unknown"

\* guess_runtime_from_command(cmd)
guess_runtime_from_command(c) == RuntimeOfHead(Lower(PathName(PathOf(c[1]))))

\* the matches of one fallback extension in find_entrypoint_in_dir
FallbackMatches(d, ext) == Glob(d, ext)

FallbackExts == <<N.ext_sh, N.ext_js, N.ext_go>>

\* positions of the priority names that are regular files of d
PriorityHits(d) ==
    {i \in 1..Len(ENTRYPOINT_PATTERNS) : IsFile(PathJoin(d, ENTRYPOINT_PATTERNS[i]))}

\* positions of the fallback extensions that match something in d
FallbackHits(d) == {i \in 1..Len(FallbackExts) : FallbackMatches(d, FallbackExts[i]) # {}}

\* the entry point of d: the first priority hit, else the first sorted match
\* of the first fallback extension with a match, else None
PickEntrypoint(d, hits, some) ==
    IF hits # {} THEN Some(PathJoin(d, ENTRYPOINT_PATTERNS[SetMin(hits)]))
    ELSE IF some # {}
    THEN Some(PathJoin(d, FirstSorted(FallbackMatches(d, FallbackExts[SetMin(some)]))))
    ELSE None

\* the fact find_entrypoint_in_dir logs for the entry point it returns
EntrypointLogged(ep, lg) ==
    [ep |-> ep,
     log |-> IF ep = None THEN LogAdd(lg, F.entrypoint_none)
             ELSE LogAdd(lg, F.entrypoint \o PathName(ep[1]))]

\* find_entrypoint_in_dir(d, log): [ep, log]
find_entrypoint_in_dir(d, lg) ==
    EntrypointLogged(PickEntrypoint(d, PriorityHits(d), FallbackHits(d)), lg)

\* os.access(f, os.X_OK)
ExecutableAt(r) == r # None /\ (r[1] \in ExecFiles \/ r[1] \in Dirs)

IsExecutable(f) == ExecutableAt(Resolve(CWD, f))

\* f.open().readline().strip(), the empty text when the file cannot be read
FirstLineAt(r) == IF IsFileAt(r) THEN Strip(FirstLine(r[1])) ELSE <<>>

\* guess_runtime_from_file: the shebang test on the first line
GuessByShebang(first, lg) ==
    IF StartsWith(first, X.shebang) /\ Contains(first, X.python)
    THEN [rt |-> "python", log |-> lg]
    ELSE IF StartsWith(first, X.shebang) /\ Contains(first, X.node)
    THEN [rt |-> "node", log |-> lg]
    ELSE IF StartsWith(first, X.shebang)
            /\ (Contains(first, X.bash) \/ Contains(first, X.slash_sh))
    THEN [rt |-> "bash", log |-> lg]
    ELSE [rt |-> "unknown", log |-> LogAdd(lg, F.runtime_unknown)]

\* guess_runtime_from_file: the extension table, ext being f.suffix.lower()
GuessByExt(f, ext, lg) ==
    IF ext = N.ext_py THEN [rt |-> "python", log |-> lg]
    ELSE IF ext = N.ext_js THEN [rt |-> "node", log |-> lg]
    ELSE IF ext = N.ext_sh
    THEN [rt |-> "bash",
          log |-> LogAdd(lg, F.executable \o (IF IsExecutable(f) THEN F.yes ELSE F.no))]
    ELSE IF ext = N.ext_go THEN [rt |-> "go", log |-> lg]
    ELSE GuessByShebang(FirstLineAt(Resolve(CWD, f)), lg)

\* guess_runtime_from_file(f, log): [rt, log]
guess_runtime_from_file(f, lg) == GuessByExt(f, Lower(Suffix(f)), lg)

\* _dir_has(d, name)
dir_has(d, name) == IsFile(PathJoin(d, name))

\* _dir_has_any_py(d)
dir_has_any_py(d) == Glob(d, N.ext_py) # {}

\* classify_project_dir with an entry point: its runtime, project type app
ClassifiedApp(g) == [rt |-> g.rt, pt |-> "app", log |-> g.log]

\* classify_project_dir(d, entrypoint, log): [rt, pt, log]
classify_project_dir(d, ep, lg) ==
    IF ep # None THEN ClassifiedApp(guess_runtime_from_file(ep[1], lg))
    ELSE IF dir_has(d, N.package_json) THEN [rt |-> "node", pt |-> "library", log |-> lg]
    ELSE IF dir_has(d, N.pyproject_toml) \/ dir_has_any_py(d)
    THEN [rt |-> "python", pt |-> "library",
          log |-> IF dir_has_any_py(d) THEN LogAdd(lg, F.python_dir) ELSE lg]
    ELSE IF dir_has(d, N.go_mod) THEN [rt |-> "go", pt |-> "library", log |-> lg]
    ELSE [rt |-> "unknown", pt |-> "unknown", log |-> lg]

\* parse_target: the command branch, sp being shlex.split(raw) or its ValueError
ParseCommand(sp, lg) ==
    IF sp.err
    THEN [t |-> Target("command", None, None, None, "unknown", "unknown"),
          log |-> LogAdd(lg, F.command_parse_error)]
    ELSE IF sp.toks = <<>>
    THEN [t |-> Target("command", None, None, None, "unknown", "unknown"),
          log |-> LogAdd(lg, F.command_empty)]
    ELSE [t |-> Target("command", None, Some(sp.toks), None,
                       guess_runtime_from_command(sp.toks), "app"),
          log |-> LogAdd(lg, F.input_command \o Join(Take(sp.toks, 6), <<" ">>)
                             \o (IF Len(sp.toks) > 6 THEN F.ellipsis ELSE <<>>))]

\* parse_target: the file branch, g being guess_runtime_from_file's result
FileTarget(p, g) == [t |-> Target("file", Some(p), None, Some(p), g.rt, "app"), log |-> g.log]

\* parse_target: the directory branch, k being classify_project_dir's result
DirTarget(p, ep, k) == [t |-> Target("dir", Some(p), None, ep, k.rt, k.pt), log |-> k.log]

DirEntry(p, e) == DirTarget(p, e.ep, classify_project_dir(p, e.ep, e.log))

\* parse_target: the path branches
ParsePath(p, lg) ==
    IF IsFile(p)
    THEN FileTarget(p, guess_runtime_from_file(p, LogAdd(lg, F.input_file \o PathStr(p))))
    ELSE IF IsDir(p)
    THEN DirEntry(p, find_entrypoint_in_dir(p, LogAdd(lg, F.input_dir \o PathStr(p))))
    ELSE [t |-> Target("file", Some(p), None, None, "unknown", "unknown"),
          log |-> LogAdd(lg, F.input_not_found)]

\* parse_target: a wrapped argument whose content exists is unwrapped
Unwrapped(raw, u) == IF u.wrapped /\ Exists(PathOf(u.text)) THEN u.text ELSE raw

ParseRaw(raw, lg) ==
    IF is_command_input(raw) THEN ParseCommand(ShlexSplit(raw), lg)
    ELSE ParsePath(PathOf(raw), lg)

ParseStripped(raw, lg) == ParseRaw(Unwrapped(raw, unquote_if_wrapped(raw)), lg)

\* parse_target(raw, log): [t, log]
parse_target(raw, lg) == ParseStripped(Strip(raw), lg)


\* ---------------------------------------------------------------- environment verifier
\* shutil.which(name): the executable's name when it is on the search path
Which(name) == IF name \in installed THEN Some(name) ELSE None

\* a or b, for Optional values
OrElse(a, b) == IF a # None THEN a ELSE b

\* which_runtime answering with the first-choice name without a look at the path
which_runtime_unchecked(rt) ==
    CASE rt = "python" -> Some(X.python3)
      [] rt = "node" -> Some(X.node)
      [] rt = "bash" -> Some(X.bash)
      [] rt = "go" -> Some(X.go)
      [] OTHER -> None

\* which_runtime(runtime)
which_runtime(rt) ==
    CASE rt = "python" -> OrElse(Which(X.python3), Which(X.python))
      [] rt = "node" -> Which(X.node)
      [] rt = "bash" -> OrElse(Which(X.bash), Which(X.sh))
      [] rt = "go" -> Which(X.go)
      [] OTHER -> None

VERSION_MAX == 120

\* the text before the first line break at one of the positions brk
UpTo(s, brk) == IF brk = {} THEN s ELSE SubSeq(s, 1, SetMin(brk) - 1)

\* str.splitlines()[0] of a non-empty text
FirstLineOf(s) == UpTo(s, {i \in 1..Len(s) : s[i] \in {LF, CR}})

\* get_runtime_version: the fact for the stripped output out
VersionFact(out) ==
    IF out # <<>> THEN F.runtime_version \o Take(FirstLineOf(out), VERSION_MAX)
    ELSE F.runtime_version_unknown

\* get_runtime_version(exe, runtime, log) when subprocess.run raised (raised)
\* or returned the output text: the new log
get_runtime_version(raised, text, lg) ==
    IF raised THEN LogAdd(lg, F.runtime_version_error)
    ELSE LogAdd(lg, VersionFact(Strip(text)))

\* base of detect_project_facts and python_deps_probe_from_requirements
FactsBase(tt) ==
    IF tt.kind = "dir" /\ tt.path # None THEN tt.path
    ELSE IF tt.entrypoint # None THEN Some(PathParent(tt.entrypoint[1]))
    ELSE None

\* present(p)
Present(p) == IF Exists(p) THEN F.present ELSE F.absent

\* text of a project type in a fact
ProjectTypeText(pt) == IF pt = "app" THEN F.app ELSE F.library

\* detect_project_facts below its early return: l1 is the log after the
\* project_type fact
FactsAt(tt, base, l1) ==
    CASE tt.runtime = "python" ->
           LogAdd(LogAdd(LogAdd(l1,
               F.pyproject \o Present(PathJoin(base, N.pyproject_toml))),
               F.requirements_txt \o Present(PathJoin(base, N.requirements_txt))),
               F.venv \o (IF \E n \in {N.dot_venv, N.venv, N.env} : IsDir(PathJoin(base, n))
                          THEN F.present ELSE F.absent))
      [] tt.runtime = "node" ->
           LogAdd(LogAdd(LogAdd(l1,
               F.package_json \o Present(PathJoin(base, N.package_json))),
               F.lockfile \o (IF \E n \in {N.package_lock, N.yarn_lock, N.pnpm_lock} :
                                     Exists(PathJoin(base, n))
                              THEN F.present ELSE F.absent)),
               F.node_modules \o Present(PathJoin(base, N.node_modules)))
      [] tt.runtime = "go" ->
           LogAdd(l1, F.go_mod \o Present(PathJoin(base, N.go_mod)))
      [] OTHER -> l1

\* detect_project_facts(t, log): the new log
detect_project_facts(tt, lg) ==
    IF FactsBase(tt) = None THEN lg
    ELSE FactsAt(tt, FactsBase(tt)[1],
                 IF tt.project_type # "unknown"
                 THEN LogAdd(lg, F.project_type \o ProjectTypeText(tt.project_type))
                 ELSE lg)

\* ---------------------------------------------------------------- dependency probe
MAX_PKGS == 12
MISSING_SHOWN == 6

VersionOps == << <<"=","=">>, <<">","=">>, <<"<","=">>, <<"~","=">>, <<">">>, <<"<">>, <<"!","=">> >>

\* the loop over the version operators: cut the name at each one it contains
RECURSIVE CutOps(_, _)
CutOps(name, ops) ==
    IF ops = <<>> THEN name
    ELSE CutOps(IF Contains(name, Head(ops)) THEN Strip(BeforeFirst(name, Head(ops))) ELSE name,
                Tail(ops))

\* str.split(): the words between runs of whitespace
RECURSIVE Words(_)
WordsAt(s, sp) ==
    IF s = <<>> THEN <<>>
    ELSE IF sp = {} THEN <<s>>
    ELSE <<SubSeq(s, 1, SetMin(sp) - 1)>> \o Words(Drop(s, SetMin(sp)))

StrippedWords(s) == WordsAt(s, {i \in 1..Len(s) : IsSpace(s[i])})

Words(s) == StrippedWords(Strip(s))

\* name.split("[", 1)[0] when "[" is in name
CutExtras(name) == IF Contains(name, <<"[">>) THEN BeforeFirst(name, <<"[">>) ELSE name

\* the package name of a line whose text before ";" splits into words:
\* IndexError is raised when there is no word and [0] is taken
NameOf(words) ==
    IF words = <<>> THEN [skip |-> FALSE, raised |-> TRUE, name |-> <<>>]
    ELSE [skip |-> FALSE, raised |-> FALSE, name |-> CutOps(CutExtras(words[1]), VersionOps)]

\* one stripped line of requirements.txt: skipped, or an exception raised,
\* or the package name parsed (possibly empty)
ParseStrippedLine(s) ==
    IF s = <<>> \/ StartsWith(s, <<"#">>) THEN [skip |-> TRUE, raised |-> FALSE, name |-> <<>>]
    ELSE IF StartsWith(s, <<"-">>) \/ Contains(s, X.url) \/ StartsWith(s, X.git)
    THEN [skip |-> TRUE, raised |-> FALSE, name |-> <<>>]
    ELSE NameOf(Words(Strip(BeforeFirst(s, <<";">>))))

ParseReqLine(ln) == ParseStrippedLine(Strip(ln))

\* the loop over the lines: [raised, pkgs]
RECURSIVE ParseReq(_, _)
Collected(lines, more) ==
    IF Len(more) >= MAX_PKGS THEN [raised |-> FALSE, pkgs |-> more]
    ELSE ParseReq(Tail(lines), more)

ParsedLine(lines, pkgs, r) ==
    IF r.skip THEN ParseReq(Tail(lines), pkgs)
    ELSE IF r.raised THEN [raised |-> TRUE, pkgs |-> pkgs]
    ELSE Collected(lines, IF r.name # <<>> THEN Append(pkgs, r.name) ELSE pkgs)

ParseReq(lines, pkgs) ==
    IF lines = <<>> THEN [raised |-> FALSE, pkgs |-> pkgs]
    ELSE ParsedLine(lines, pkgs, ParseReqLine(Head(lines)))

\* p.replace("-", "_")
ModGuess(p) == [i \in 1..Len(p) |-> IF p[i] = "-" THEN "_" ELSE p[i]]

\* importlib.util.find_spec raises for a dotted name whose parent package
\* cannot be imported
FindSpecRaises(m) == Contains(m, <<".">>)

\* the elements of pkgs find_spec does not find
RECURSIVE Missing(_)
Missing(pkgs) ==
    IF pkgs = <<>> THEN <<>>
    ELSE (IF ModGuess(Head(pkgs)) \in Importable THEN <<>> ELSE <<Head(pkgs)>>)
         \o Missing(Tail(pkgs))

\* the facts of a probe that checked pkgs and missed missing
ProbeFacts(lg, pkgs, missing) ==
    IF missing # <<>>
    THEN LogAdd(LogAdd(lg, F.deps_checked \o Dec(Len(pkgs)) \o F.missing_eq \o Dec(Len(missing))),
                F.deps_missing \o Join(Take(missing, MISSING_SHOWN), <<",">>)
                \o (IF Len(missing) > MISSING_SHOWN THEN F.ellipsis ELSE <<>>))
    ELSE LogAdd(lg, F.deps_checked \o Dec(Len(pkgs)) \o F.missing_eq \o Dec(Len(missing)))

\* the probe after the lines were read
Probed(parsed, lg) ==
    IF parsed.raised THEN [raised |-> TRUE, log |-> lg]
    ELSE IF parsed.pkgs = <<>> THEN [raised |-> FALSE, log |-> LogAdd(lg, F.deps_no_packages)]
    ELSE IF \E i \in 1..Len(parsed.pkgs) : FindSpecRaises(ModGuess(parsed.pkgs[i]))
    THEN [raised |-> FALSE, log |-> LogAdd(lg, F.deps_error)]
    ELSE [raised |-> FALSE, log |-> ProbeFacts(lg, parsed.pkgs, Missing(parsed.pkgs))]

\* python_deps_probe_from_requirements(t, log): [raised, log]; raised when
\* an exception leaves the function
python_deps_probe_from_requirements(tt, lg) ==
    IF tt.runtime # "python" THEN [raised |-> FALSE, log |-> lg]
    ELSE IF FactsBase(tt) = None THEN [raised |-> FALSE, log |-> lg]
    ELSE IF ~IsFile(PathJoin(FactsBase(tt)[1], N.requirements_txt))
    THEN [raised |-> FALSE, log |-> lg]
    ELSE IF ~req.readable THEN [raised |-> FALSE, log |-> LogAdd(lg, F.deps_read_error)]
    ELSE Probed(ParseReq(req.lines, <<>>), lg)


\* ---------------------------------------------------------------- run orchestrator
RUN_TIMEOUT_SECONDS == 3

\* check_entrypoint_exists(t, log): [ok, log]
check_entrypoint_exists(tt, lg) ==
    IF tt.entrypoint = None THEN [ok |-> FALSE, log |-> LogAdd(lg, F.entrypoint_missing)]
    ELSE IF ~Exists(tt.entrypoint[1])
    THEN [ok |-> FALSE, log |-> LogAdd(lg, F.entrypoint_not_found)]
    ELSE IF ~IsFile(tt.entrypoint[1])
    THEN [ok |-> FALSE, log |-> LogAdd(lg, F.entrypoint_not_file)]
    ELSE [ok |-> TRUE, log |-> lg]

\* the entry point as build_run_command writes it in the command line: str(ep)
EntrypointArg(tt) == PathStr(tt.entrypoint[1])

\* build_run_command for a file or directory target with an entry point,
\* chk being check_entrypoint_exists's result
BuildChecked(tt, exe, lg, chk) ==
    IF ~chk.ok THEN [cmd |-> None, log |-> chk.log]
    ELSE IF tt.runtime \in {"python", "node", "bash"}
    THEN IF exe = None THEN [cmd |-> None, log |-> LogAdd(lg, F.runtime_missing)]
         ELSE [cmd |-> Some(<<exe[1], EntrypointArg(tt)>>), log |-> lg]
    ELSE IF tt.runtime = "go"
    THEN IF exe = None THEN [cmd |-> None, log |-> LogAdd(lg, F.runtime_missing)]
         ELSE [cmd |-> Some(<<exe[1], X.run, EntrypointArg(tt)>>), log |-> lg]
    ELSE [cmd |-> None, log |-> LogAdd(lg, F.runtime_unknown)]

\* build_run_command(t, runtime_exe, log): [cmd, log]
build_run_command(tt, exe, lg) ==
    IF tt.kind = "command"
    THEN IF tt.command = None \/ tt.command = Some(<<>>)
         THEN [cmd |-> None, log |-> LogAdd(lg, F.run_command_missing)]
         ELSE [cmd |-> tt.command, log |-> lg]
    ELSE IF tt.entrypoint = None
    THEN [cmd |-> None, log |-> LogAdd(lg, F.run_not_applicable)]
    ELSE BuildChecked(tt, exe, lg, check_entrypoint_exists(tt, lg))

\* cwd of main's run_attempt call: t.path for a directory target, else None
\* (the caller's working directory)
RunCwd(tt) == IF tt.kind = "dir" /\ tt.path # None THEN tt.path ELSE None

\* the directory a process spawned with cwd works in, by absolute parts
SpawnDir(cwd) == IF cwd = None THEN Some(CWD) ELSE Resolve(CWD, cwd[1])

\* the script argument of a command line build_run_command built
ScriptArg(c) == c[Len(c)]

\* exit status of a runtime that cannot open the script it is given
NoScriptCode(rt) ==
    CASE rt = "python" -> 2 [] rt = "bash" -> 127 [] OTHER -> 1

\* what a runtime does with the script at r: it runs it when r is a regular
\* file, and exits at once otherwise
RunsScript(tt, r) ==
    IF IsFileAt(r) THEN behaviour ELSE [code |-> NoScriptCode(tt.runtime), secs |-> 0]

\* the script as the process looks it up from its working directory
ScriptFrom(dir, c) == IF dir = None THEN None ELSE Resolve(dir[1], PathOf(ScriptArg(c)))

\* what the process Popen started does: a command is the program itself, a
\* runtime is given the script argument of its command line
ProcessOf(tt, c, cwd) ==
    IF tt.kind = "command" THEN behaviour ELSE RunsScript(tt, ScriptFrom(SpawnDir(cwd), c))

\* Popen raises FileNotFoundError: the executable is not found
SpawnNotFound(c) == c[1] \notin installed

\* run_attempt counting a process still running at the timeout as a failure
WaitResultTimeoutFails(w, code) == w = "exit" /\ code = 0

\* the boolean run_attempt returns after proc.wait: w is "exit" (the process
\* ended within the timeout, with this code), "timeout" or "wait_error"
WaitResult(w, code) ==
    CASE w = "exit" -> code = 0
      [] w = "timeout" -> TRUE
      [] OTHER -> FALSE

\* the fact run_attempt logs after proc.wait
WaitFact(w, code) ==
    CASE w = "exit" -> F.run_exit_code \o Dec(code)
      [] w = "timeout" -> F.run_timeout_running
      [] OTHER -> F.run_wait_error

\* ---------------------------------------------------------------- inputs
\* number of package lines of the long requirements.txt
ManyPkgs == 13
\* length of the long first line of a runtime's version output
VerLen == 121

A_proj_abs == <<"/">> \o W.w \o <<"/">> \o W.proj
A_quoted_my_dir == <<DQ>> \o W.my_dir \o <<DQ>>
A_quoted_sp_a_b == <<DQ>> \o W.sp_a_b \o <<DQ>>
A_quoted_nope == <<SQ>> \o W.nope \o <<" ", "x">> \o <<SQ>>
A_python3_s_py == X.python3 \o <<" ">> \o W.s_py
A_py_s_py == X.py \o <<" ">> \o W.s_py
A_sh_c == X.sh \o <<" ", "-", "c", " ", SQ, "a", TAB, "b", SQ>>
A_unknown_cmd == <<"e", " ", SQ, "a", CR, "b", SQ>>
A_unclosed == <<"e", " ", SQ, "x">>
A_node_many == X.node \o <<" ", "a", " ", "b", " ", "c", " ", "d", " ", "e", " ", "g", " ", "h">>

\* the raw arguments tried
RawArgs ==
    { W.proj, A_proj_abs, W.lib, W.pylib, W.golib, W.gd, W.fb, W.empty, <<>>,
      W.my_dir, A_quoted_my_dir, A_quoted_sp_a_b, A_quoted_nope,
      W.s_py, W.u_PY, W.h_go, W.tool, W_cr_py, W_long_py, W.nope,
      A_python3_s_py, A_py_s_py, A_sh_c, A_unknown_cmd, A_unclosed, A_node_many }

\* sys.argv[1:]: no argument, one argument, two arguments
Argvs == {<<>>, <<W.proj, W.lib>>} \cup {<<a>> : a \in RawArgs}

\* what shutil.which can find: everything, only the second-choice names, nothing
Installs ==
    { {X.python3, X.python, X.node, X.bash, X.sh, X.go}, {X.python, X.sh}, {} }

R_pkg_pinned == <<"n","o","-","s","u","c","h","=","=","1">>
R_pkg_extra == <<"o","s","[","x","]",">","=","2"," ",";"," ","m">>
R_comment == <<"#"," ","c">>
R_option == <<"-","r"," ","x">>
R_marker_only == <<";"," ","m">>
R_dotted == <<"a",".","b">>

\* the states of requirements.txt tried
Reqs ==
    { [present |-> FALSE, readable |-> TRUE, lines |-> <<>>],
      [present |-> TRUE, readable |-> FALSE, lines |-> <<>>],
      [present |-> TRUE, readable |-> TRUE, lines |-> <<>>],
      [present |-> TRUE, readable |-> TRUE,
       lines |-> <<R_comment, R_option, R_pkg_pinned, R_pkg_extra>>],
      [present |-> TRUE, readable |-> TRUE, lines |-> <<R_pkg_pinned, R_marker_only>>],
      [present |-> TRUE, readable |-> TRUE, lines |-> <<R_dotted>>],
      [present |-> TRUE, readable |-> TRUE, lines |-> [i \in 1..ManyPkgs |-> <<"p", "-", "q">>]] }

\* what the target program does when it runs: exit status and seconds it takes
Behaviours ==
    { [code |-> 0, secs |-> 0], [code |-> 1, secs |-> 0],
      [code |-> 0, secs |-> RUN_TIMEOUT_SECONDS + 1] }

\* outputs of "<exe> --version": nothing, or a long first line and a second line
VersionTexts == { <<>>, [i \in 1..VerLen |-> "v"] \o <<LF, "x">> }

NoTarget == Target("none", None, None, None, "unknown", "unknown")
NoRun == [spawn |-> "none", wait |-> "none", proc |-> [code |-> 0, secs |-> 0], cwd |-> None]
StaleLog == <<"o", "l", "d", LF>>


\* ---------------------------------------------------------------- main
Init ==
    /\ argv \in Argvs
    /\ installed \in Installs
    /\ req \in Reqs
    /\ behaviour \in Behaviours
    /\ pc = "start"
    /\ log = <<>>
    /\ t = NoTarget
    /\ runtime_exe = None
    /\ cmd = None
    /\ run = NoRun
    /\ ok = FALSE
    /\ subprocs = <<>>
    /\ stdout = <<>>
    /\ exitCode = None
    /\ logFile = StaleLog

env == <<argv, installed, req, behaviour>>

\* main: the argument count test
CheckArgs ==
    /\ pc = "start"
    /\ IF Len(argv) # 1
       THEN log' = LogAdd(log, F.arg_missing_or_extra) /\ pc' = "fail"
       ELSE log' = log /\ pc' = "platform"
    /\ UNCHANGED <<env, t, runtime_exe, cmd, run, ok, subprocs, stdout, exitCode, logFile>>

\* main: the platform fact; an exception in platform.* is passed over
Platform ==
    /\ pc = "platform"
    /\ \E raised \in BOOLEAN :
          log' = IF raised THEN log ELSE LogAdd(log, F.platform \o W.platform)
    /\ pc' = "parse"
    /\ UNCHANGED <<env, t, runtime_exe, cmd, run, ok, subprocs, stdout, exitCode, logFile>>

\* main: t = parse_target(sys.argv[1], log)
ParseTarget ==
    /\ pc = "parse"
    /\ \E r \in {parse_target(argv[1], log)} : t' = r.t /\ log' = r.log
    /\ pc' = "check_runtime"
    /\ UNCHANGED <<env, runtime_exe, cmd, run, ok, subprocs, stdout, exitCode, logFile>>

\* main: an unknown runtime fails
CheckRuntime ==
    /\ pc = "check_runtime"
    /\ IF t.runtime = "unknown"
       THEN log' = LogAdd(log, F.runtime_unknown) /\ pc' = "fail"
       ELSE log' = log /\ pc' = "which"
    /\ UNCHANGED <<env, t, runtime_exe, cmd, run, ok, subprocs, stdout, exitCode, logFile>>

\* main: runtime_exe = which_runtime(rt); a missing runtime fails
WhichRuntime ==
    /\ pc = "which"
    /\ \E exe \in {which_runtime(t.runtime)} :
          /\ runtime_exe' = exe
          /\ IF exe = None
             THEN log' = LogAdd(log, F.runtime_missing) /\ pc' = "fail"
             ELSE log' = log /\ pc' = "version"
    /\ UNCHANGED <<env, t, cmd, run, ok, subprocs, stdout, exitCode, logFile>>

\* main: get_runtime_version.  subprocess.run either fails to start the
\* executable, or starts it and times out, or starts it and returns its output
RuntimeVersion ==
    /\ pc = "version"
    /\ \/ /\ log' = get_runtime_version(TRUE, <<>>, log)
          /\ subprocs' = subprocs
       \/ /\ log' = get_runtime_version(TRUE, <<>>, log)
          /\ subprocs' = Append(subprocs, [kind |-> "version",
                                           cmd |-> <<runtime_exe[1], X.version>>, cwd |-> None])
       \/ \E text \in VersionTexts :
          /\ log' = get_runtime_version(FALSE, text, log)
          /\ subprocs' = Append(subprocs, [kind |-> "version",
                                           cmd |-> <<runtime_exe[1], X.version>>, cwd |-> None])
    /\ pc' = "facts"
    /\ UNCHANGED <<env, t, runtime_exe, cmd, run, ok, stdout, exitCode, logFile>>

\* main: detect_project_facts(t, log)
DetectProjectFacts ==
    /\ pc = "facts"
    /\ log' = detect_project_facts(t, log)
    /\ pc' = "deps"
    /\ UNCHANGED <<env, t, runtime_exe, cmd, run, ok, subprocs, stdout, exitCode, logFile>>

\* main: python_deps_probe_from_requirements(t, log).  An exception that leaves
\* it leaves main too: the interpreter prints a traceback on standard error and
\* exits with status 1; nothing is printed on standard output, no log is written
DepsProbe ==
    /\ pc = "deps"
    /\ \E r \in {python_deps_probe_from_requirements(t, log)} :
          /\ log' = r.log
          /\ IF r.raised
             THEN pc' = "crashed" /\ exitCode' = Some(1)
             ELSE pc' = "library" /\ exitCode' = exitCode
    /\ UNCHANGED <<env, t, runtime_exe, cmd, run, ok, subprocs, stdout, logFile>>

\* main with the library short-circuit left out
IsLibraryNever(tt) == FALSE

\* main: if t.project_type == "library"
IsLibrary(tt) == tt.project_type = "library"

\* main: a library succeeds without a run
LibraryCheck ==
    /\ pc = "library"
    /\ pc' = IF IsLibrary(t) THEN "success" ELSE "build"
    /\ UNCHANGED <<env, log, t, runtime_exe, cmd, run, ok, subprocs, stdout, exitCode, logFile>>

\* main: cmd = build_run_command(t, None or runtime_exe, log); no command fails
BuildRunCommand ==
    /\ pc = "build"
    /\ \E b \in {build_run_command(t, IF t.kind = "command" THEN None ELSE runtime_exe, log)} :
          /\ cmd' = b.cmd
          /\ log' = b.log
          /\ pc' = IF b.cmd = None THEN "fail" ELSE "spawn"
    /\ UNCHANGED <<env, t, runtime_exe, run, ok, subprocs, stdout, exitCode, logFile>>

\* run_attempt: subprocess.Popen(cmd, cwd=...)
Spawn ==
    /\ pc = "spawn"
    /\ \E cwd \in {RunCwd(t)} :
           \/ /\ SpawnNotFound(cmd[1])
              /\ run' = [run EXCEPT !.spawn = "not_found", !.cwd = cwd]
              /\ log' = LogAdd(log, F.run_not_found)
              /\ ok' = FALSE /\ pc' = "verdict" /\ subprocs' = subprocs
           \/ /\ ~SpawnNotFound(cmd[1])
              /\ run' = [run EXCEPT !.spawn = "spawn_error", !.cwd = cwd]
              /\ log' = LogAdd(log, F.run_spawn_error)
              /\ ok' = FALSE /\ pc' = "verdict" /\ subprocs' = subprocs
           \/ /\ ~SpawnNotFound(cmd[1])
              /\ run' = [run EXCEPT !.spawn = "started", !.cwd = cwd,
                                    !.proc = ProcessOf(t, cmd[1], cwd)]
              /\ subprocs' = Append(subprocs, [kind |-> "target", cmd |-> cmd[1], cwd |-> cwd])
              /\ log' = log /\ ok' = ok /\ pc' = "wait"
    /\ UNCHANGED <<env, t, runtime_exe, cmd, stdout, exitCode, logFile>>

\* run_attempt: proc.wait(timeout=RUN_TIMEOUT_SECONDS)
Wait ==
    /\ pc = "wait"
    /\ \E w \in {IF run.proc.secs < RUN_TIMEOUT_SECONDS THEN "exit" ELSE "timeout", "wait_error"} :
          /\ run' = [run EXCEPT !.wait = w]
          /\ log' = LogAdd(log, WaitFact(w, run.proc.code))
          /\ ok' = WaitResult(w, run.proc.code)
    /\ pc' = "verdict"
    /\ UNCHANGED <<env, t, runtime_exe, cmd, subprocs, stdout, exitCode, logFile>>

\* main: if ok: success(log); fail(log)
Verdict ==
    /\ pc = "verdict"
    /\ pc' = IF ok THEN "success" ELSE "fail"
    /\ UNCHANGED <<env, log, t, runtime_exe, cmd, run, ok, subprocs, stdout, exitCode, logFile>>

\* Log.write(): the file is overwritten, or an error leaves it as it was
LogWrite(written) == IF written THEN LogText(log) ELSE logFile

\* fail(log)
Fail ==
    /\ pc = "fail"
    /\ \E written \in BOOLEAN : logFile' = LogWrite(written)
    /\ stdout' = Append(stdout, "FAIL")
    /\ exitCode' = Some(1)
    /\ pc' = "done"
    /\ UNCHANGED <<env, log, t, runtime_exe, cmd, run, ok, subprocs>>

\* success(log)
Success ==
    /\ pc = "success"
    /\ \E written \in BOOLEAN : logFile' = LogWrite(written)
    /\ stdout' = Append(stdout, "SUCCESS")
    /\ exitCode' = Some(0)
    /\ pc' = "done"
    /\ UNCHANGED <<env, log, t, runtime_exe, cmd, run, ok, subprocs>>

Next ==
    \/ CheckArgs \/ Platform \/ ParseTarget \/ CheckRuntime \/ WhichRuntime
    \/ RuntimeVersion \/ DetectProjectFacts \/ DepsProbe \/ LibraryCheck
    \/ BuildRunCommand \/ Spawn \/ Wait \/ Verdict \/ Fail \/ Success

Spec == Init /\ [][Next]_vars

\* ---------------------------------------------------------------- Log.add alone
\* lines handed to Log.add: a short one, and one that is padded, holds a
\* newline and is longer than a log line may be
LogLines ==
    { <<"a">>, <<" ", "b", LF>> \o [i \in 1..LOG_LINE_MAX |-> "z"] \o <<" ">> }

\* a fresh Log, before any Log.add
InitLog ==
    /\ argv = <<>>
    /\ installed = {}
    /\ req = [present |-> FALSE, readable |-> TRUE, lines |-> <<>>]
    /\ behaviour = [code |-> 0, secs |-> 0]
    /\ pc = "log"
    /\ log = <<>>
    /\ t = NoTarget
    /\ runtime_exe = None
    /\ cmd = None
    /\ run = NoRun
    /\ ok = FALSE
    /\ subprocs = <<>>
    /\ stdout = <<>>
    /\ exitCode = None
    /\ logFile = StaleLog

\* one call of Log.add
LogAddCall ==
    /\ pc = "log"
    /\ \E line \in LogLines : log' = LogAdd(log, line)
    /\ UNCHANGED <<env, pc, t, runtime_exe, cmd, run, ok, subprocs, stdout, exitCode, logFile>>

SpecLog == InitLog /\ [][LogAddCall]_vars

\* ---------------------------------------------------------------- claims
Verdict_SUCCESS == <<"SUCCESS">>
Verdict_FAIL == <<"FAIL">>

\* the process has ended
Exited == exitCode # None

\* parse_target has returned
Parsed == t.kind # "none"

\* C1: every invocation ends with exactly one line on standard output, SUCCESS
\* or FAIL, and the exit code agrees with it; nothing is printed before the end
\* and the process never ends but through fail() or success().
C1_OneVerdict ==
    /\ ~Exited => stdout = <<>>
    /\ Exited => /\ pc = "done"
                 /\ \/ stdout = Verdict_SUCCESS /\ exitCode = Some(0)
                    \/ stdout = Verdict_FAIL /\ exitCode = Some(1)

C3_ProbeNeverAltersVerdict ==
    (Parsed /\ t.runtime = "python" /\ Exited)
        => /\ pc = "done"
           /\ stdout = Verdict_SUCCESS
                 <=> (runtime_exe # None /\ (t.project_type = "library" \/ ok))

\* C4: the target is spawned at most once; after a run attempt the verdict is
\* SUCCESS exactly when the process was started and either ended within the
\* timeout with code 0 or was still running when the timeout expired; a spawn
\* failure, a nonzero exit and a wait error give FAIL.
C4_SingleAttempt ==
    /\ Cardinality({i \in 1..Len(subprocs) : subprocs[i].kind = "target"}) <= 1
    /\ run.wait = "exit" => run.proc.secs < RUN_TIMEOUT_SECONDS
    /\ run.wait = "timeout" => run.proc.secs >= RUN_TIMEOUT_SECONDS
    /\ (pc = "done" /\ run.spawn # "none")
          => (stdout = Verdict_SUCCESS
                <=> /\ run.spawn = "started"
                    /\ \/ run.wait = "exit" /\ run.proc.code = 0
                       \/ run.wait = "timeout")

C4_Witness ==
    /\ pc = "done" /\ run.spawn = "started" /\ run.wait = "timeout"
    /\ run.proc.secs > RUN_TIMEOUT_SECONDS /\ stdout = Verdict_SUCCESS

\* the target's runtime is a known one and none of its executables is on the
\* search path
RuntimeMissing ==
    /\ Parsed
    /\ \/ t.runtime = "python" /\ X.python3 \notin installed /\ X.python \notin installed
       \/ t.runtime = "node" /\ X.node \notin installed
       \/ t.runtime = "bash" /\ X.bash \notin installed /\ X.sh \notin installed
       \/ t.runtime = "go" /\ X.go \notin installed

IsControl(c) == c \in {TAB, LF, CR}

\* a line of at most 240 characters without a control character
Sanitized(line) ==
    /\ Len(line) <= LOG_LINE_MAX
    /\ \A j \in 1..Len(line) : ~IsControl(line[j])

\* C6: every line of the Fact Log, and of the log file once written, is at
\* most 240 characters long and holds no newline or other control character,
\* and the file has no more lines than the log has entries, at most 10.
C6_LinesSanitized ==
    /\ \A i \in 1..Len(log) : Sanitized(log[i])
    /\ logFile # StaleLog
          => /\ \A i \in 1..Len(FileLines(logFile)) : Sanitized(FileLines(logFile)[i])
             /\ Len(FileLines(logFile)) <= Len(log)
             /\ Len(log) <= LOG_MAX_LINES

\* C7: the log never holds more than 10 entries; a Log.add on a log of fewer
\* than 10 entries appends exactly one entry at the end and leaves the earlier
\* ones as they were; a Log.add on a log of 10 entries leaves it unchanged.
C7_AppendOnlyCapped ==
    /\ [](Len(log) <= LOG_MAX_LINES)
    /\ [][IF Len(log) < LOG_MAX_LINES
          THEN Len(log') = Len(log) + 1 /\ SubSeq(log', 1, Len(log)) = log
          ELSE log' = log]_vars

C7_Witness == Len(log) = LOG_MAX_LINES /\ log[1] # log[LOG_MAX_LINES]

\* C8: a raw argument wrapped in one matching pair of quotes whose unwrapped
\* content exists is not a command: is_command_input is false and parse_target
\* returns a file or dir target at the unwrapped path.
C8_QuotedExistingIsPath ==
    (Parsed /\ unquote_if_wrapped(argv[1]).wrapped
            /\ Exists(PathOf(unquote_if_wrapped(argv[1]).text)))
        => /\ ~is_command_input(argv[1])
           /\ t.kind \in {"file", "dir"}
           /\ t.path = Some(PathOf(unquote_if_wrapped(argv[1]).text))

\* the names of d's regular files that end with ext
FileMatches(d, ext) == {n \in Glob(d, ext) : IsFile(PathJoin(d, n))}

\* positions of the fallback extensions that match a regular file of d
FileMatchHits(d) == {i \in 1..Len(FallbackExts) : FileMatches(d, FallbackExts[i]) # {}}

\* the entry point C9 describes
ClaimedEntrypoint(d, hits, some) ==
    IF hits # {} THEN Some(PathJoin(d, ENTRYPOINT_PATTERNS[SetMin(hits)]))
    ELSE IF some # {}
    THEN Some(PathJoin(d, FirstSorted(FileMatches(d, FallbackExts[SetMin(some)]))))
    ELSE None

\* C9: the entry point of a directory is the first priority name that is a
\* regular file of it, else the lexicographically first file of the first of
\* *.sh, *.js, *.go with a match, else none; a returned entry point is a
\* regular file of the directory.
C9_EntrypointPriority ==
    (Parsed /\ t.kind = "dir")
        => /\ t.entrypoint =
                ClaimedEntrypoint(t.path[1], PriorityHits(t.path[1]), FileMatchHits(t.path[1]))
           /\ t.entrypoint # None
                 => /\ IsFile(t.entrypoint[1])
                    /\ PathParent(t.entrypoint[1]) = t.path[1]

\* C10: for a directory target the entry-point path of the command line, looked
\* up from the working directory the process is spawned in, is the discovered
\* entry point; so a directory app whose entry point exits with code 0 within
\* the timeout, once started and waited for, gives SUCCESS.
C10_EntrypointArgResolves ==
    (Parsed /\ t.kind = "dir" /\ cmd # None)
        => /\ ScriptFrom(SpawnDir(RunCwd(t)), cmd[1]) = Resolve(CWD, t.entrypoint[1])
           /\ (pc = "done" /\ run.wait = "exit" /\ behaviour = [code |-> 0, secs |-> 0])
                 => stdout = Verdict_SUCCESS

====
